---- MODULE Spec2Model ----
(***************************************************************************)
(* Conversation identity and start-or-get of the ads platform backend.     *)
(*                                                                         *)
(* Two revisions of the chat subsystem are modelled, selected by rev:      *)
(*   "key" : controllers/chat.controller.js with the Chat schema that      *)
(*           carries participantsKey and the unique index                  *)
(*           { ad, participantsKey };                                      *)
(*   "arr" : the earlier controller that looks chats up by the             *)
(*           participants array, with the Chat schema whose unique index   *)
(*           is { ad, participants } (a multikey index).                   *)
(* A request is a sequence of steps separated by the awaits of the         *)
(* handler; steps of different requests interleave freely.                 *)
(*                                                                         *)
(* The message stream (getMessages, sendMessage, unreadCount), the debug   *)
(* cleanup route and the chat migration script are modelled on top of the  *)
(* same chat store, under specifications of their own. The status         *)
(* workflow of the ads controller and the password reset of the auth       *)
(* controller have their own variables and specifications.                 *)
(***************************************************************************)
EXTENDS Naturals, Integers, Sequences, FiniteSets, TLC

\* ------------------------------------------------------------------ bounds
MaxReq == 2

Reqs == 1..MaxReq

\* Users are ObjectIds; their canonical (lower-case hex) strings are ordered
\* like the numbers that stand for them.
Users == {1, 2, 3}

\* Ad.user of the ads that exist. Ad ids outside the domain name no ad.
\* The table is fixed: deleteAd only sets isDeleted, which Ad.findById of
\* startChat does not look at, and the Ad schema refuses to change user.
AdOwner == (1 :> 2) @@ (2 :> 2)

AdIds == {1, 2, 3}

\* A raw id string of a request body: the ObjectId it denotes and the way
\* it is written. "plain" is the canonical lower-case hex string, "upper"
\* the same hex digits in upper case, "padded" the canonical string with
\* surrounding whitespace, "garbage" a string that is no ObjectId at all.
Garbage == [id |-> 0, form |-> "garbage"]

ReceiverInputs == [id : Users, form : {"plain", "upper", "padded"}] \cup {Garbage}

AdInputs == [id : AdIds, form : {"plain", "padded"}] \cup {Garbage}

VARIABLES rev, chats, chatSeq, req, now, messages, msgSeq, mreq, migration,
          ads, areq, account, preq

vars == <<rev, chats, chatSeq, req, now, messages, msgSeq, mreq, migration,
          ads, areq, account, preq>>

\* The ads with their status requests and the account with its password
\* reset requests: the chat handlers write none of them.
sideVars == <<ads, areq, account, preq>>

\* The state of the message stream, of the clock and of the migration script.
msgVars == <<now, messages, msgSeq, mreq, migration>>

\* ------------------------------------------------------- id normalisation

\* typeof x === 'string' ? x.trim() : x
Trim(raw) == IF raw.form = "padded" THEN [raw EXCEPT !.form = "plain"] ELSE raw

\* mongoose.Types.ObjectId.isValid on a string: 24 hex digits, either case.
IsValid(raw) == raw.form \in {"plain", "upper"}

\* new mongoose.Types.ObjectId(x).toString(): the canonical id.
ToObjectId(raw) == raw.id

\* x === y on raw strings against a canonical string.
SameString(raw, id) == raw.form = "plain" /\ raw.id = id

\* --------------------------------------------------------- canonical key

\* The pair left in the order given.
SortPairUnsorted(a, b) == <<a, b>>

\* [x, y].sort() on two canonical id strings.
SortPair(a, b) == IF a <= b THEN <<a, b>> ELSE <<b, a>>

\* [a.toString(), b.toString()].sort().join(sep)
JoinSorted(a, b, sep) == <<SortPair(a, b)[1], sep, SortPair(a, b)[2]>>

\* The key joined without sorting.
ParticipantsKeyUnsorted(me, receiver) == <<me, "_", receiver>>

\* startChat: [me, receiver].sort().join('_')
ParticipantsKey(me, receiver) == JoinSorted(me, receiver, "_")

\* chatSchema.pre('save') / pre('validate'): recomputed from the stored array.
HookParticipantsKey(participants) ==
    IF Len(participants) = 2
    THEN JoinSorted(participants[1], participants[2], "_")
    ELSE <<>>

\* conversationSchema.pre('save'): sorted ids joined by ":".
ConversationKey(participants) == JoinSorted(participants[1], participants[2], ":")

NoKey == <<>>

Range(s) == {s[i] : i \in 1..Len(s)}

\* ------------------------------------------------------------ chat store

\* participants validator of the Chat schema: exactly two entries.
ParticipantsValid(participants) == Len(participants) = 2

\* The document Chat.create persists, after the schema hooks have run.
NewChat(id, ad, participants) ==
    [id |-> id, ad |-> ad, participants |-> participants,
     participantsKey |-> IF rev = "key" THEN HookParticipantsKey(participants) ELSE NoKey,
     lastMessage |-> 0, updatedAt |-> now]

\* The index declared without unique: true.
DuplicateKeyNotUnique(doc) == FALSE

\* The unique index declared on participantsKey alone.
DuplicateKeyIgnoringAd(doc) ==
    \E c \in chats : c.participantsKey = doc.participantsKey

\* The unique index of the chats collection rejects doc (E11000).
\*   "key": { ad: 1, participantsKey: 1 }, unique
\*   "arr": { ad: 1, participants: 1 }, unique; one index entry per array
\*          element, so two documents clash when they share (ad, participant).
DuplicateKey(doc) ==
    IF rev = "key"
    THEN \E c \in chats : c.ad = doc.ad /\ c.participantsKey = doc.participantsKey
    ELSE \E c \in chats : c.ad = doc.ad
                          /\ Range(c.participants) \cap Range(doc.participants) # {}

\* Chat.findOne of startChat, main path and recovery path alike.
\*   "key": { ad, participantsKey }
\*   "arr": { ad, participants: { $all: participants, $size: 2 } }
FindChat(ad, participants, key) ==
    IF rev = "key"
    THEN {c \in chats : c.ad = ad /\ c.participantsKey = key}
    ELSE {c \in chats : c.ad = ad /\ Len(c.participants) = 2
                        /\ Range(participants) \subseteq Range(c.participants)}

\* ---------------------------------------------------------- error handler

\* errorHandler: a raw E11000 becomes handleDuplicateKeyError's AppError(400),
\* any other raw error ends as 500.
ErrorHandlerStatus(code) == IF code = 11000 THEN 400 ELSE 500

\* -------------------------------------------------------------- startChat

\* The owner check left out.
ReceiverIsOwnerUnchecked(receiver, ad) == TRUE

\* receiverObjectId.toString() === sellerId.toString() ("key"),
\* receiverId === sellerId.toString() ("arr").
ReceiverIsOwner(receiver, ad) ==
    IF rev = "key"
    THEN ToObjectId(receiver) = AdOwner[ToObjectId(ad)]
    ELSE SameString(receiver, AdOwner[ToObjectId(ad)])

\* The self check done on the raw strings.
ReceiverIsCallerRaw(receiver, caller) == SameString(receiver, caller)

\* receiverObjectId.toString() === meObjectId.toString() ("key"),
\* receiverId === req.user.id ("arr").
ReceiverIsCaller(receiver, caller) ==
    IF rev = "key"
    THEN ToObjectId(receiver) = caller
    ELSE SameString(receiver, caller)

\* The missing ad answered like any other invalid input.
ValidationStatusAdMissing400(caller, receiverRaw, adRaw) ==
    LET receiver == IF rev = "key" THEN Trim(receiverRaw) ELSE receiverRaw
        ad == Trim(adRaw)
    IN  IF ~IsValid(receiver) THEN 400
        ELSE IF ~IsValid(ad) THEN 400
        ELSE IF ReceiverIsCaller(receiver, caller) THEN 400
        ELSE IF ToObjectId(ad) \notin DOMAIN AdOwner THEN 400
        ELSE IF ~ReceiverIsOwner(receiver, ad) THEN 400
        ELSE 0

\* Status of the early return of startChat's validation, 0 when the request
\* passes on to the chat lookup. "key" trims both ids, "arr" only the ad id.
ValidationStatus(caller, receiverRaw, adRaw) ==
    LET receiver == IF rev = "key" THEN Trim(receiverRaw) ELSE receiverRaw
        ad == Trim(adRaw)
    IN  IF ~IsValid(receiver) THEN 400
        ELSE IF ~IsValid(ad) THEN 400
        ELSE IF ReceiverIsCaller(receiver, caller) THEN 400
        ELSE IF ToObjectId(ad) \notin DOMAIN AdOwner THEN 404
        ELSE IF ~ReceiverIsOwner(receiver, ad) THEN 400
        ELSE 0

\* participants of the chat to find or create: [me, receiver], sorted in "arr".
RequestParticipants(caller, receiverRaw) ==
    IF rev = "key"
    THEN <<caller, ToObjectId(Trim(receiverRaw))>>
    ELSE SortPair(caller, ToObjectId(receiverRaw))

RequestKey(caller, receiverRaw) ==
    IF rev = "key" THEN ParticipantsKey(caller, ToObjectId(Trim(receiverRaw))) ELSE NoKey

Idle == [pc |-> "idle", caller |-> 0, receiver |-> Garbage, ad |-> Garbage,
         participants |-> <<>>, key |-> NoKey, status |-> 0, chat |-> 0,
         existing |-> 0, reads |-> 0, inserts |-> 0, responses |-> 0]

\* History of a request: the id of the chat that was persisted for the
\* request's ad and its unordered pair {caller, receiver} when the request
\* arrived, 0 when there was none.
ExistingChat(caller, receiverRaw, adRaw) ==
    LET cs == {c \in chats : /\ IsValid(Trim(receiverRaw)) /\ IsValid(Trim(adRaw))
                             /\ c.ad = ToObjectId(adRaw)
                             /\ Range(c.participants) = {caller, ToObjectId(receiverRaw)}}
    IN  IF cs = {} THEN 0 ELSE (CHOOSE c \in cs : TRUE).id

Respond(r, st, chatId) ==
    [r EXCEPT !.pc = "done", !.status = st, !.chat = chatId, !.responses = @ + 1]

\* Entry of the handler up to the first chat query: id validation, self
\* check, ad lookup, owner check, participants and participantsKey.
StartChatBegin ==
    \E r \in Reqs, caller \in Users, receiver \in ReceiverInputs, ad \in AdInputs :
        /\ req[r].pc = "idle"
        /\ r > 1 => req[r - 1].pc # "idle"
        /\ LET st == ValidationStatus(caller, receiver, ad)
               r0 == [Idle EXCEPT !.caller = caller, !.receiver = receiver, !.ad = ad,
                                  !.existing = ExistingChat(caller, receiver, ad)]
           IN  req' = [req EXCEPT ![r] =
                    IF st # 0
                    THEN Respond(r0, st, 0)
                    ELSE [r0 EXCEPT !.pc = "lookup",
                                    !.participants = RequestParticipants(caller, receiver),
                                    !.key = RequestKey(caller, receiver)]]
        /\ UNCHANGED <<sideVars, rev, chats, chatSeq>>
        /\ UNCHANGED msgVars

\* Chat.findOne of the main path: 200 with the chat found, else on to create.
StartChatLookup ==
    \E r \in Reqs :
        /\ req[r].pc = "lookup"
        /\ LET found == FindChat(ToObjectId(req[r].ad), req[r].participants, req[r].key)
               r1 == [req[r] EXCEPT !.reads = @ + 1]
           IN  IF found # {}
               THEN \E c \in found : req' = [req EXCEPT ![r] = Respond(r1, 200, c.id)]
               ELSE req' = [req EXCEPT ![r] = [r1 EXCEPT !.pc = "insert"]]
        /\ UNCHANGED <<sideVars, rev, chats, chatSeq>>
        /\ UNCHANGED msgVars

\* Chat.create: schema validation, then the insert, which the unique index
\* accepts or rejects atomically.
StartChatInsert ==
    \E r \in Reqs :
        /\ req[r].pc = "insert"
        /\ LET doc == NewChat(chatSeq + 1, ToObjectId(req[r].ad), req[r].participants)
               r1 == [req[r] EXCEPT !.inserts = @ + 1]
           IN  IF ~ParticipantsValid(doc.participants)
               THEN /\ req' = [req EXCEPT ![r] = Respond(r1, 400, 0)]
                    /\ UNCHANGED <<chats, chatSeq>>
               ELSE IF DuplicateKey(doc)
               THEN /\ req' = [req EXCEPT ![r] = [r1 EXCEPT !.pc = "recover"]]
                    /\ UNCHANGED <<chats, chatSeq>>
               ELSE /\ chats' = chats \cup {doc}
                    /\ chatSeq' = chatSeq + 1
                    /\ req' = [req EXCEPT ![r] = [r1 EXCEPT !.pc = "created", !.chat = doc.id]]
        /\ UNCHANGED <<sideVars, rev>>
        /\ UNCHANGED msgVars

\* populate and res.status(201) after a successful insert.
StartChatCreated ==
    \E r \in Reqs :
        /\ req[r].pc = "created"
        /\ req' = [req EXCEPT ![r] = Respond(req[r], 201, req[r].chat)]
        /\ UNCHANGED <<sideVars, rev, chats, chatSeq>>
        /\ UNCHANGED msgVars

\* The request is abandoned after its insert and before its response.
StartChatAbandon ==
    \E r \in Reqs :
        /\ req[r].pc = "created"
        /\ req' = [req EXCEPT ![r] = [@ EXCEPT !.pc = "abandoned"]]
        /\ UNCHANGED <<sideVars, rev, chats, chatSeq>>
        /\ UNCHANGED msgVars

\* catch block on E11000: re-validate the raw body ids, read the chat once,
\* 200 with it, else hand the error to the error handler.
StartChatRecover ==
    \E r \in Reqs :
        /\ req[r].pc = "recover"
        /\ LET rawOk == IsValid(req[r].receiver) /\ IsValid(req[r].ad)
               parts == IF rev = "key"
                        THEN <<req[r].caller, ToObjectId(req[r].receiver)>>
                        ELSE SortPair(req[r].caller, ToObjectId(req[r].receiver))
               key == IF rev = "key"
                      THEN ParticipantsKey(req[r].caller, ToObjectId(req[r].receiver))
                      ELSE NoKey
               found == FindChat(ToObjectId(req[r].ad), parts, key)
               r1 == [req[r] EXCEPT !.reads = @ + 1]
           IN  IF ~rawOk
               THEN req' = [req EXCEPT ![r] =
                        Respond(req[r], IF rev = "key" THEN 400 ELSE ErrorHandlerStatus(11000), 0)]
               ELSE IF found # {}
               THEN \E c \in found : req' = [req EXCEPT ![r] = Respond(r1, 200, c.id)]
               ELSE req' = [req EXCEPT ![r] = Respond(r1, ErrorHandlerStatus(11000), 0)]
        /\ UNCHANGED <<sideVars, rev, chats, chatSeq>>
        /\ UNCHANGED msgVars

\* ---------------------------------------------------------- message stream

MaxMsgReq == 3

MaxOpsReq == 2

MaxTime == 1

MaxMigChats == 3

\* The message requests of a run.
MReqs == DOMAIN mreq

\* text.trim().length > 2000
MaxTextLength == 2000

\* The ad field of a chat document that has none (null or absent).
NoAd == 0

\* The :id of the route, as written in the URL.
ChatIdInputs == [id : 1..3, form : {"plain"}] \cup {Garbage}

\* The text of a request body: the number of characters that survive trim()
\* and the number of surrounding whitespace characters. NoText is the empty
\* string or a missing text.
NoText == [body |-> 0, pad |-> 0]

TextInputs == {[body |-> 0, pad |-> 1], [body |-> 1, pad |-> 1]}

\* Texts around the bounds of the checks: no character, exactly the
\* maximum and one more, each bare and between two whitespace characters.
BoundaryTexts == [body : {0, MaxTextLength, MaxTextLength + 1}, pad : {0, 2}]

\* text.trim()
TrimText(text) == [text EXCEPT !.pad = 0]

\* text.length
TextLength(text) == text.body + text.pad

\* getMessages: early return on the chat id, 0 when the request goes on.
GetValidationStatus(chatId) == IF ~IsValid(chatId) THEN 400 ELSE 0

\* The length check done on the text as received.
SendValidationStatusUntrimmed(chatId, text) ==
    IF ~IsValid(chatId) THEN 400
    ELSE IF TextLength(text) = 0 \/ TextLength(TrimText(text)) = 0 THEN 400
    ELSE IF TextLength(text) > MaxTextLength THEN 400
    ELSE 0

\* sendMessage: early returns on the chat id and on the text, in that order,
\* 0 when the request goes on to the chat lookup.
SendValidationStatus(chatId, text) ==
    IF ~IsValid(chatId) THEN 400
    ELSE IF TextLength(text) = 0 \/ TextLength(TrimText(text)) = 0 THEN 400
    ELSE IF TextLength(TrimText(text)) > MaxTextLength THEN 400
    ELSE 0

\* Chat.findById(chatId)
FindChatById(chatId) == {c \in chats : c.id = ToObjectId(chatId)}

\* The participant check left out.
IsParticipantUnchecked(chat, user) == TRUE

\* chat.participants.some(p => p.toString() === currentUserId.toString())
IsParticipant(chat, user) ==
    \E i \in 1..Len(chat.participants) : chat.participants[i] = user

\* The receiver taken from the head of the array.
OtherParticipantFirst(chat, user) == chat.participants[1]

\* chat.participants.find(p => p.toString() !== currentUserId.toString()),
\* 0 when there is none.
OtherParticipant(chat, user) ==
    LET idx == {i \in 1..Len(chat.participants) : chat.participants[i] # user}
    IN  IF idx = {} THEN 0
        ELSE chat.participants[CHOOSE i \in idx : \A j \in idx : i <= j]

\* Status of the access check on the result of Chat.findById, 0 when the
\* caller is a participant of the chat found.
AccessStatus(found, user) ==
    IF found = {} THEN 404
    ELSE IF ~IsParticipant(CHOOSE c \in found : TRUE, user) THEN 403
    ELSE 0

\* The message created read.
NewMessageRead(id, chat, sender, receiver, text) ==
    [id |-> id, chat |-> chat, sender |-> sender, receiver |-> receiver,
     text |-> TrimText(text), isRead |-> TRUE, createdAt |-> now]

\* The document Message.create persists; createdAt is the time of the save.
NewMessage(id, chat, sender, receiver, text) ==
    [id |-> id, chat |-> chat, sender |-> sender, receiver |-> receiver,
     text |-> TrimText(text), isRead |-> FALSE, createdAt |-> now]

\* The filter without the chat.
MarkReadMatchesAnyChat(m, chat, user) == m.receiver = user /\ ~m.isRead

\* The filter without the receiver.
MarkReadMatchesAnyReceiver(m, chat, user) == m.chat = chat /\ ~m.isRead

\* The filter without the read flag.
MarkReadMatchesAnyState(m, chat, user) == m.chat = chat /\ m.receiver = user

\* Filter of the updateMany of getMessages:
\* { chat: chatId, receiver: currentUserId, isRead: false }
MarkReadMatches(m, chat, user) == m.chat = chat /\ m.receiver = user /\ ~m.isRead

\* { $set: { isRead: true } }
MarkReadUpdate(m) == [m EXCEPT !.isRead = TRUE]

\* Ids of the persisted messages; a message's id is its position in the
\* collection's insertion order.
MessageIds == 1..Len(messages)

\* Message.find({ chat: chatId })
MessagesOf(chat) == {i \in MessageIds : messages[i].chat = chat}

\* .sort({ createdAt: 1 }): every order of ids that is ascending in
\* createdAt; the order among equal createdAt values is not determined by
\* the query.
SortByCreatedAt(ids) ==
    {s \in [1..Cardinality(ids) -> ids] :
        /\ \A i, j \in 1..Cardinality(ids) : i # j => s[i] # s[j]
        /\ \A i, j \in 1..Cardinality(ids) :
              i < j => messages[s[i]].createdAt <= messages[s[j]].createdAt}

\* unreadCount: Message.countDocuments({ receiver: userId, isRead: false })
UnreadCount(user) ==
    Cardinality({i \in MessageIds : messages[i].receiver = user /\ ~messages[i].isRead})

\* A message request. parts, ops, listSeq, markSeq, marked and after are
\* history: the participants of the chat the lookup found, the number of
\* operations on the messages collection, the number of messages persisted
\* when the list and the mark-read ran, the ids the mark-read matched and,
\* of a sendMessage, the messages whose sendMessage had completed when it
\* arrived. found and unread are the response of a getChats: the ids of the
\* chats in the order returned and the unreadCount of each.
MIdle == [pc |-> "idle", op |-> "none", caller |-> 0, chatId |-> Garbage,
          text |-> NoText, status |-> 0, receiver |-> 0, returned |-> <<>>,
          created |-> 0, parts |-> <<>>, ops |-> 0, listSeq |-> 0, markSeq |-> 0,
          marked |-> {}, after |-> {}, found |-> <<>>, unread |-> <<>>]

\* The messages created by the sendMessage requests that have completed.
SentAndDone == {mreq[q].created : q \in {x \in MReqs : mreq[x].pc = "done" /\ mreq[x].created # 0}}

MRespond(r, st) == [r EXCEPT !.pc = "done", !.status = st]

\* getMessages up to Chat.findById: the id format check.
GetMessagesBegin ==
    \E r \in MReqs, caller \in Users, chatId \in ChatIdInputs :
        /\ mreq[r].pc = "idle"
        /\ r > 1 => mreq[r - 1].pc # "idle"
        /\ LET st == GetValidationStatus(chatId)
               r0 == [MIdle EXCEPT !.op = "get", !.caller = caller, !.chatId = chatId]
           IN  mreq' = [mreq EXCEPT ![r] =
                    IF st # 0 THEN MRespond(r0, st) ELSE [r0 EXCEPT !.pc = "getFind"]]
        /\ UNCHANGED <<sideVars, rev, chats, chatSeq, req, now, messages, msgSeq, migration>>

\* Chat.findById and the participant check of getMessages.
GetMessagesFindChat ==
    \E r \in MReqs :
        /\ mreq[r].pc = "getFind"
        /\ LET found == FindChatById(mreq[r].chatId)
               st == AccessStatus(found, mreq[r].caller)
               r1 == [mreq[r] EXCEPT !.parts = IF found = {} THEN <<>>
                                               ELSE (CHOOSE c \in found : TRUE).participants]
           IN  mreq' = [mreq EXCEPT ![r] =
                    IF st # 0 THEN MRespond(r1, st) ELSE [r1 EXCEPT !.pc = "getList"]]
        /\ UNCHANGED <<sideVars, rev, chats, chatSeq, req, now, messages, msgSeq, migration>>

\* Message.find({ chat }).sort({ createdAt: 1 })
GetMessagesList ==
    \E r \in MReqs :
        /\ mreq[r].pc = "getList"
        /\ \E s \in SortByCreatedAt(MessagesOf(ToObjectId(mreq[r].chatId))) :
              mreq' = [mreq EXCEPT ![r] = [@ EXCEPT !.pc = "getMark", !.returned = s,
                                                    !.ops = @ + 1, !.listSeq = msgSeq]]
        /\ UNCHANGED <<sideVars, rev, chats, chatSeq, req, now, messages, msgSeq, migration>>

\* Message.updateMany marks the caller's unread messages of the chat, then
\* res.status(200) with the messages listed before.
GetMessagesMarkRead ==
    \E r \in MReqs :
        /\ mreq[r].pc = "getMark"
        /\ LET chat == ToObjectId(mreq[r].chatId)
               hit == {i \in MessageIds : MarkReadMatches(messages[i], chat, mreq[r].caller)}
           IN  /\ messages' = [i \in MessageIds |->
                                 IF i \in hit THEN MarkReadUpdate(messages[i]) ELSE messages[i]]
               /\ mreq' = [mreq EXCEPT ![r] =
                              MRespond([@ EXCEPT !.ops = @ + 1, !.markSeq = msgSeq,
                                                 !.marked = hit], 200)]
        /\ UNCHANGED <<sideVars, rev, chats, chatSeq, req, now, msgSeq, migration>>

\* sendMessage up to Chat.findById: the id format check and the text checks.
SendMessageBeginWith(texts) ==
    \E r \in MReqs, caller \in Users, chatId \in ChatIdInputs, text \in texts :
        /\ mreq[r].pc = "idle"
        /\ r > 1 => mreq[r - 1].pc # "idle"
        /\ LET st == SendValidationStatus(chatId, text)
               r0 == [MIdle EXCEPT !.op = "send", !.caller = caller, !.chatId = chatId,
                                   !.text = text, !.after = SentAndDone]
           IN  mreq' = [mreq EXCEPT ![r] =
                    IF st # 0 THEN MRespond(r0, st) ELSE [r0 EXCEPT !.pc = "sendFind"]]
        /\ UNCHANGED <<sideVars, rev, chats, chatSeq, req, now, messages, msgSeq, migration>>

\* sendMessage arriving with one of the texts of the message stream.
SendMessageBegin == SendMessageBeginWith(TextInputs)

\* sendMessage arriving with a text at the bounds of the length check.
SendMessageBeginAtBounds == SendMessageBeginWith(BoundaryTexts)

\* Chat.findById, the participant check and the receiver of sendMessage.
SendMessageFindChat ==
    \E r \in MReqs :
        /\ mreq[r].pc = "sendFind"
        /\ LET found == FindChatById(mreq[r].chatId)
               st == AccessStatus(found, mreq[r].caller)
               chat == CHOOSE c \in found : TRUE
               r1 == [mreq[r] EXCEPT !.parts = IF found = {} THEN <<>> ELSE chat.participants]
           IN  mreq' = [mreq EXCEPT ![r] =
                    IF st # 0 THEN MRespond(r1, st)
                    ELSE IF OtherParticipant(chat, mreq[r].caller) = 0 THEN MRespond(r1, 400)
                    ELSE [r1 EXCEPT !.pc = "sendCreate",
                                    !.receiver = OtherParticipant(chat, mreq[r].caller)]]
        /\ UNCHANGED <<sideVars, rev, chats, chatSeq, req, now, messages, msgSeq, migration>>

\* Message.create, followed by the populate of the sender.
SendMessageCreate ==
    \E r \in MReqs :
        /\ mreq[r].pc = "sendCreate"
        /\ LET doc == NewMessage(msgSeq + 1, ToObjectId(mreq[r].chatId), mreq[r].caller,
                                 mreq[r].receiver, mreq[r].text)
           IN  /\ messages' = Append(messages, doc)
               /\ msgSeq' = msgSeq + 1
               /\ mreq' = [mreq EXCEPT ![r] = [@ EXCEPT !.pc = "sendUpdate", !.created = doc.id,
                                                        !.ops = @ + 1]]
        /\ UNCHANGED <<sideVars, rev, chats, chatSeq, req, now, migration>>

\* Chat.findByIdAndUpdate(chatId, { lastMessage, updatedAt }), which updates
\* nothing when the chat is gone, then res.status(201).
SendMessageUpdateChat ==
    \E r \in MReqs :
        /\ mreq[r].pc = "sendUpdate"
        /\ chats' = {IF c.id = ToObjectId(mreq[r].chatId)
                     THEN [c EXCEPT !.lastMessage = mreq[r].created, !.updatedAt = now]
                     ELSE c : c \in chats}
        /\ mreq' = [mreq EXCEPT ![r] = MRespond(@, 201)]
        /\ UNCHANGED <<sideVars, rev, chatSeq, req, now, messages, msgSeq, migration>>

\* Chat.findByIdAndUpdate rejects (the storage layer fails): the catch block
\* hands the error to the error handler, after Message.create has persisted
\* the message.
SendMessageUpdateFails ==
    \E r \in MReqs :
        /\ mreq[r].pc = "sendUpdate"
        /\ mreq' = [mreq EXCEPT ![r] = MRespond(@, ErrorHandlerStatus(0))]
        /\ UNCHANGED <<sideVars, rev, chats, chatSeq, req, now, messages, msgSeq, migration>>

\* The chats of every user.
ChatsOfUserAll(user) == chats

\* Chat.find({ participants: userObjectId })
ChatsOfUser(user) == {c \in chats : \E i \in 1..Len(c.participants) : c.participants[i] = user}

\* .sort({ updatedAt: -1 }): every order of the chats' ids that is
\* descending in updatedAt.
SortByUpdatedAt(cs) ==
    {s \in [1..Cardinality(cs) -> {c.id : c \in cs}] :
        /\ \A i, j \in 1..Cardinality(cs) : i # j => s[i] # s[j]
        /\ \A i, j \in 1..Cardinality(cs) :
              i < j => \A c, d \in cs :
                          (c.id = s[i] /\ d.id = s[j]) => c.updatedAt >= d.updatedAt}

\* The aggregate without the read flag in its $match.
UnreadAggregateAnyState(user) ==
    LET hit == {i \in MessageIds : messages[i].receiver = user}
    IN  [c \in {messages[i].chat : i \in hit} |->
            Cardinality({i \in hit : messages[i].chat = c})]

\* Message.aggregate([{ $match: { receiver, isRead: false } },
\*                    { $group: { _id: '$chat', count: { $sum: 1 } } }]),
\* as the map from chat id to count built from its result.
UnreadAggregate(user) ==
    LET hit == {i \in MessageIds : messages[i].receiver = user /\ ~messages[i].isRead}
    IN  [c \in {messages[i].chat : i \in hit} |->
            Cardinality({i \in hit : messages[i].chat = c})]

\* unreadMap.get(String(chat._id)) || 0
UnreadOf(unreadMap, chat) == IF chat \in DOMAIN unreadMap THEN unreadMap[chat] ELSE 0

\* getChats up to the aggregate: Chat.find of the caller's chats, sorted.
GetChatsFind ==
    \E r \in MReqs, caller \in Users :
        /\ mreq[r].pc = "idle"
        /\ r > 1 => mreq[r - 1].pc # "idle"
        /\ \E s \in SortByUpdatedAt(ChatsOfUser(caller)) :
              mreq' = [mreq EXCEPT ![r] =
                  [MIdle EXCEPT !.op = "chats", !.caller = caller, !.found = s,
                                !.pc = "chatsAggregate"]]
        /\ UNCHANGED <<sideVars, rev, chats, chatSeq, req, now, messages, msgSeq, migration>>

\* Message.aggregate, the unreadCount of each chat found and res.status(200).
GetChatsAggregate ==
    \E r \in MReqs :
        /\ mreq[r].pc = "chatsAggregate"
        /\ LET unreadMap == UnreadAggregate(mreq[r].caller)
           IN  mreq' = [mreq EXCEPT ![r] =
                   MRespond([@ EXCEPT !.ops = @ + 1,
                                      !.unread = [k \in 1..Len(mreq[r].found) |->
                                                     UnreadOf(unreadMap, mreq[r].found[k])]],
                            200)]
        /\ UNCHANGED <<sideVars, rev, chats, chatSeq, req, now, messages, msgSeq, migration>>

\* Time passes: new Date() of a later step is not smaller.
Tick ==
    /\ now < MaxTime
    /\ now' = now + 1
    /\ UNCHANGED <<sideVars, rev, chats, chatSeq, req, messages, msgSeq, mreq, migration>>

\* ------------------------------------------------- cleanup and migration

\* DELETE /api/debug/chats/cleanup-null-ads: Chat.deleteMany({ ad: null }),
\* whose filter matches the chats whose ad is null or absent.
CleanupNullAds ==
    /\ chats' = {c \in chats : c.ad # NoAd}
    /\ UNCHANGED <<sideVars, rev, chatSeq, req, now, messages, msgSeq, mreq, migration>>

\* migrateChatsRemoveAd, steps 1 to 3: the indexes on ad are dropped and
\* updateMany({}, { $unset: { ad: '' } }) removes ad from every chat.
MigrateUnsetAd ==
    /\ migration = "idle"
    /\ chats' = {[c EXCEPT !.ad = NoAd] : c \in chats}
    /\ migration' = "unset"
    /\ UNCHANGED <<sideVars, rev, chatSeq, req, now, messages, msgSeq, mreq>>

\* $group by participants, $match count > 1: the sets of chats that hold
\* the same participants array.
DuplicateGroups ==
    {g \in {{c \in chats : c.participants = d.participants} : d \in chats} :
        Cardinality(g) > 1}

\* sortedChats[0] of a group: a chat with the greatest updatedAt.
Newest(g) == {c \in g : \A d \in g : d.updatedAt <= c.updatedAt}

\* The chats of a group whose lastMessage the loop copies to the kept chat:
\* those deleted chats that have one, when the kept chat has none. The copy
\* made last, from a chat with the smallest updatedAt, is the one that stays.
Donors(g, keep) ==
    LET ds == {c \in g \ {keep} : c.lastMessage # 0 /\ keep.lastMessage = 0}
    IN  {c \in ds : \A d \in ds : c.updatedAt <= d.updatedAt}

\* The kept chat after the loop over the deleted chats of its group.
Merged(keep, donor) ==
    IF donor = keep THEN keep
    ELSE [keep EXCEPT !.lastMessage = donor.lastMessage, !.updatedAt = donor.updatedAt]

\* migrateChatsRemoveAd, step 4: of every group of duplicates the newest
\* chat is kept and the others are deleted with deleteOne.
MigrateDedup ==
    /\ migration = "unset"
    /\ \E keep \in [DuplicateGroups -> chats], donor \in [DuplicateGroups -> chats] :
          /\ \A g \in DuplicateGroups :
                /\ keep[g] \in Newest(g)
                /\ donor[g] \in (IF Donors(g, keep[g]) = {} THEN {keep[g]}
                                 ELSE Donors(g, keep[g]))
          /\ chats' = (chats \ UNION DuplicateGroups)
                        \cup {Merged(keep[g], donor[g]) : g \in DuplicateGroups}
    /\ migration' = "done"
    /\ UNCHANGED <<sideVars, rev, chatSeq, req, now, messages, msgSeq, mreq>>

\* ------------------------------------------------------------- ad status

MaxAds == 1

MaxAdReq == 3

\* The users that create ads and ask for status changes.
AdUsers == {1, 2}

\* status of the body of a PATCH /:id/status; "archived" is a value outside
\* the enum.
StatusInputs == {"draft", "active", "sold", "archived"}

\* status of the body of a POST /ads; "" is a body without status.
CreateStatusInputs == {"", "draft", "active", "sold"}

\* allowedStatuses of updateAdStatus, the enum of the Ad schema.
AllowedStatuses == {"draft", "active", "sold"}

\* validTransitions of updateAdStatus.
ValidTransitions(status) ==
    CASE status = "draft" -> {"active"}
      [] status = "active" -> {"sold"}
      [] OTHER -> {}

\* adData of createAd: status is 'draft', user is the caller.
NewAd(user) == [user |-> user, status |-> "draft"]

\* A status request; loaded is the status of the ad as the request read it.
AdIdle == [pc |-> "idle", caller |-> 0, ad |-> 0, target |-> "", loaded |-> "",
           status |-> 0]

AdRespond(r, st) == [r EXCEPT !.pc = "done", !.status = st]

\* Status of updateAdStatus's early return on the ad read and the requested
\* status, 0 when the request goes on to the save.
UpdateStatusCheck(found, caller, target) ==
    IF found = <<>> THEN 404
    ELSE IF found[1].user # caller THEN 403
    ELSE IF target \notin AllowedStatuses THEN 400
    ELSE IF found[1].status = "sold" THEN 400
    ELSE IF target \notin ValidTransitions(found[1].status) THEN 400
    ELSE 0

\* createAd: a body with a status is refused, otherwise Ad.create.
CreateAd ==
    \E caller \in AdUsers, status \in CreateStatusInputs :
        /\ Len(ads) < MaxAds
        /\ ads' = IF status # "" THEN ads ELSE Append(ads, NewAd(caller))
        /\ UNCHANGED <<rev, chats, chatSeq, req, now, messages, msgSeq, mreq, migration,
                       areq, account, preq>>

\* updateAdStatus up to the save: Ad.findOne, the ownership check and the
\* transition check on the ad as read.
UpdateAdStatusRead ==
    \E r \in DOMAIN areq, caller \in AdUsers, ad \in 1..MaxAds, target \in StatusInputs :
        /\ areq[r].pc = "idle"
        /\ r > 1 => areq[r - 1].pc # "idle"
        /\ LET found == IF ad \in 1..Len(ads) THEN <<ads[ad]>> ELSE <<>>
               st == UpdateStatusCheck(found, caller, target)
               r0 == [AdIdle EXCEPT !.caller = caller, !.ad = ad, !.target = target,
                                    !.loaded = IF found = <<>> THEN "" ELSE found[1].status]
           IN  areq' = [areq EXCEPT ![r] =
                   IF st # 0 THEN AdRespond(r0, st) ELSE [r0 EXCEPT !.pc = "save"]]
        /\ UNCHANGED <<rev, chats, chatSeq, req, now, messages, msgSeq, mreq, migration,
                       ads, account, preq>>

\* ad.status = status; ad.save(): the save writes the modified path status
\* to the stored ad, whatever its status is by then; then res.json.
UpdateAdStatusSave ==
    \E r \in DOMAIN areq :
        /\ areq[r].pc = "save"
        /\ ads' = [ads EXCEPT ![areq[r].ad].status = areq[r].target]
        /\ areq' = [areq EXCEPT ![r] = AdRespond(@, 200)]
        /\ UNCHANGED <<rev, chats, chatSeq, req, now, messages, msgSeq, mreq, migration,
                       account, preq>>

\* --------------------------------------------------------- password reset

MaxResetReq == 2

\* password.length < 6
MinPasswordLength == 6

\* The reset token that was issued and mailed, and one that was not.
IssuedToken == 1

TokenInputs == {IssuedToken, 2}

\* password of the request body: missing, too short, and two that pass.
PasswordInputs == {[id |-> 0, length |-> 0], [id |-> 1, length |-> MinPasswordLength - 1],
                   [id |-> 2, length |-> MinPasswordLength],
                   [id |-> 3, length |-> MinPasswordLength]}

\* crypto.createHash('sha256').update(token).digest('hex'): the stored form
\* of a token, distinct from every token and from the unset field (0).
HashToken(token) == token + 10

\* The account after forgotPassword: the hash of the issued token and its
\* expiry are stored.
IssuedAccount ==
    [passwordResetToken |-> HashToken(IssuedToken), passwordResetExpires |-> MaxTime,
     password |-> 0]

\* An account without a reset token.
PlainAccount == [passwordResetToken |-> 0, passwordResetExpires |-> 0, password |-> 0]

ResetIdle == [pc |-> "idle", token |-> 0, password |-> 0, status |-> 0]

ResetRespond(r, st) == [r EXCEPT !.pc = "done", !.status = st]

\* User.findOne({ passwordResetToken: hashedToken,
\*                passwordResetExpires: { $gt: Date.now() } })
ResetFindMatches(token) ==
    /\ account.passwordResetToken = HashToken(token)
    /\ account.passwordResetExpires > now

\* resetPassword up to the save: the password checks and the lookup of the
\* user by the hashed token; without a match the second lookup only picks
\* the message of the 400.
ResetPasswordFind ==
    \E r \in DOMAIN preq, token \in TokenInputs, password \in PasswordInputs :
        /\ preq[r].pc = "idle"
        /\ r > 1 => preq[r - 1].pc # "idle"
        /\ LET r0 == [ResetIdle EXCEPT !.token = token, !.password = password.id]
           IN  preq' = [preq EXCEPT ![r] =
                   IF password.length = 0 THEN ResetRespond(r0, 400)
                   ELSE IF password.length < MinPasswordLength THEN ResetRespond(r0, 400)
                   ELSE IF ~ResetFindMatches(token) THEN ResetRespond(r0, 400)
                   ELSE [r0 EXCEPT !.pc = "save"]]
        /\ UNCHANGED <<rev, chats, chatSeq, req, now, messages, msgSeq, mreq, migration,
                       ads, areq, account>>

\* The token fields cleared and the password set on the loaded document,
\* user.save(), res.status(200).
ResetPasswordSave ==
    \E r \in DOMAIN preq :
        /\ preq[r].pc = "save"
        /\ account' = [passwordResetToken |-> 0, passwordResetExpires |-> 0,
                       password |-> preq[r].password]
        /\ preq' = [preq EXCEPT ![r] = ResetRespond(@, 200)]
        /\ UNCHANGED <<rev, chats, chatSeq, req, now, messages, msgSeq, mreq, migration,
                       ads, areq>>

\* The ads of the chat handlers as stored, no status request and no reset
\* token.
InitSide ==
    /\ ads = [a \in DOMAIN AdOwner |-> NewAd(AdOwner[a])]
    /\ areq = [r \in 1..MaxAdReq |-> AdIdle]
    /\ account = PlainAccount
    /\ preq = [r \in 1..MaxResetReq |-> ResetIdle]

\* ----------------------------------------------------------- specification

InitCommon ==
    /\ InitSide
    /\ chats = {}
    /\ chatSeq = 0
    /\ req = [r \in Reqs |-> Idle]
    /\ now = 0
    /\ messages = <<>>
    /\ msgSeq = 0
    /\ mreq = [r \in 1..MaxMsgReq |-> MIdle]
    /\ migration = "idle"

Init == rev = "key" /\ InitCommon

InitArr == rev = "arr" /\ InitCommon

Next ==
    \/ StartChatBegin
    \/ StartChatLookup
    \/ StartChatInsert
    \/ StartChatCreated
    \/ StartChatAbandon
    \/ StartChatRecover

Spec == Init /\ [][Next]_vars

SpecArr == InitArr /\ [][Next]_vars

\* The message stream starts from a store in which one buyer has started a
\* chat with the same seller on each of the two ads.
InitMessages(n) ==
    /\ InitSide
    /\ rev = "key"
    /\ now = 0
    /\ chats = {NewChat(1, 1, <<1, 2>>), NewChat(2, 2, <<1, 2>>)}
    /\ chatSeq = 2
    /\ req = [r \in Reqs |-> Idle]
    /\ messages = <<>>
    /\ msgSeq = 0
    /\ mreq = [r \in 1..n |-> MIdle]
    /\ migration = "idle"

InitMsg == InitMessages(MaxMsgReq)

InitOps == InitMessages(MaxOpsReq)

NextMsg ==
    \/ GetMessagesBegin
    \/ GetMessagesFindChat
    \/ GetMessagesList
    \/ GetMessagesMarkRead
    \/ SendMessageBegin
    \/ SendMessageFindChat
    \/ SendMessageCreate
    \/ SendMessageUpdateChat
    \/ Tick

NextOps ==
    \/ NextMsg
    \/ CleanupNullAds
    \/ MigrateUnsetAd
    \/ MigrateDedup

SpecMsg == InitMsg /\ [][NextMsg]_vars

SpecOps == InitOps /\ [][NextOps]_vars

\* A store after some traffic: user 1 and user 3 each have a chat with
\* user 2, the owner of ads 1 and 2. In the first chat user 2 has read the
\* message of user 1 and answered; the answer and the message of user 3 in
\* the second chat are unread.
InitChats ==
    /\ InitSide
    /\ rev = "key"
    /\ now = 0
    /\ chats = {[NewChat(1, 1, <<1, 2>>) EXCEPT !.lastMessage = 2],
                [NewChat(2, 2, <<3, 2>>) EXCEPT !.lastMessage = 3]}
    /\ chatSeq = 2
    /\ req = [r \in Reqs |-> Idle]
    /\ messages = <<MarkReadUpdate(NewMessage(1, 1, 1, 2, [body |-> 1, pad |-> 0])),
                    NewMessage(2, 1, 2, 1, [body |-> 1, pad |-> 0]),
                    NewMessage(3, 2, 3, 2, [body |-> 1, pad |-> 0])>>
    /\ msgSeq = 3
    /\ mreq = [r \in 1..MaxOpsReq |-> MIdle]
    /\ migration = "idle"

\* The message stream with getChats.
NextChats ==
    \/ NextMsg
    \/ GetChatsFind
    \/ GetChatsAggregate

SpecChats == InitChats /\ [][NextChats]_vars

\* The message stream on a storage layer that may fail the chat update of
\* sendMessage.
NextFail ==
    \/ NextMsg
    \/ SendMessageUpdateFails

SpecFail == InitOps /\ [][NextFail]_vars

\* The participants arrays of the stored chats the migration is run on:
\* [caller, owner] as startChat stores them, so that the chats of one pair
\* of users hold either order, depending on who owns the ad.
StoredParticipants == {<<1, 2>>, <<2, 1>>, <<3, 2>>}

\* A store of MaxMigChats chats as the migration finds it, each chat on an
\* ad of its own that its second participant owns, with one of the
\* participants arrays and an updatedAt of its own, no message sent yet.
InitMig ==
    /\ InitSide
    /\ rev = "key"
    /\ now = MaxTime
    /\ \E p \in [1..MaxMigChats -> StoredParticipants], t \in [1..MaxMigChats -> 0..MaxTime] :
          chats = {[NewChat(i, i, p[i]) EXCEPT !.updatedAt = t[i]] : i \in 1..MaxMigChats}
    /\ chatSeq = MaxMigChats
    /\ req = [r \in Reqs |-> Idle]
    /\ messages = <<>>
    /\ msgSeq = 0
    /\ mreq = [r \in 1..MaxOpsReq |-> MIdle]
    /\ migration = "idle"

\* migrateChatsRemoveAd, run once on the store.
NextMig ==
    \/ MigrateUnsetAd
    \/ MigrateDedup

SpecMig == InitMig /\ [][NextMig]_vars

\* An empty store on which ads are created and their status is changed.
InitAd ==
    /\ rev = "key"
    /\ now = 0
    /\ chats = {}
    /\ chatSeq = 0
    /\ req = [r \in Reqs |-> Idle]
    /\ messages = <<>>
    /\ msgSeq = 0
    /\ mreq = [r \in 1..MaxOpsReq |-> MIdle]
    /\ migration = "idle"
    /\ ads = <<>>
    /\ areq = [r \in 1..MaxAdReq |-> AdIdle]
    /\ account = PlainAccount
    /\ preq = [r \in 1..MaxResetReq |-> ResetIdle]

NextAd ==
    \/ CreateAd
    \/ UpdateAdStatusRead
    \/ UpdateAdStatusSave

SpecAd == InitAd /\ [][NextAd]_vars

\* An account to which a reset token has been issued.
InitReset ==
    /\ rev = "key"
    /\ now = 0
    /\ chats = {}
    /\ chatSeq = 0
    /\ req = [r \in Reqs |-> Idle]
    /\ messages = <<>>
    /\ msgSeq = 0
    /\ mreq = [r \in 1..MaxOpsReq |-> MIdle]
    /\ migration = "idle"
    /\ ads = <<>>
    /\ areq = [r \in 1..MaxAdReq |-> AdIdle]
    /\ account = IssuedAccount
    /\ preq = [r \in 1..MaxResetReq |-> ResetIdle]

NextReset ==
    \/ ResetPasswordFind
    \/ ResetPasswordSave
    \/ Tick

SpecReset == InitReset /\ [][NextReset]_vars

\* sendMessage alone, with texts at the bounds of the length check.
NextText ==
    \/ SendMessageBeginAtBounds
    \/ SendMessageFindChat
    \/ SendMessageCreate
    \/ SendMessageUpdateChat

SpecText == InitOps /\ [][NextText]_vars

\* ------------------------------------------------------------------ claims

Done(r) == req[r].pc = "done"

ChatById(id) == CHOOSE c \in chats : c.id = id

\* The request got past the validation of startChat.
Passed(r) == req[r].pc \notin {"idle"} /\ ~(Done(r) /\ req[r].reads = 0 /\ req[r].inserts = 0)

\* The unordered pair {caller, receiver} of a request.
Pair(r) == {req[r].caller, ToObjectId(req[r].receiver)}

\* The persisted chats of the request's ad and pair.
ChatsOf(r) == {c \in chats : c.ad = ToObjectId(req[r].ad) /\ Range(c.participants) = Pair(r)}

\* The insert of the request was accepted by the store.
Inserted(r) == req[r].pc \in {"created", "abandoned"} \/ (Done(r) /\ req[r].status = 201)

\* C1: in every reachable state, whatever the interleaving of concurrent
\* startChat requests, the store holds at most one chat per ad and
\* participantsKey (equivalently per ad and unordered pair of users).
C1_AtMostOneChatPerAdAndKey ==
    \A c1, c2 \in chats :
        (c1.ad = c2.ad /\ (c1.participantsKey = c2.participantsKey
                           \/ Range(c1.participants) = Range(c2.participants)))
            => c1 = c2

\* Two requests for the same ad and key both found no chat and both issued
\* the insert; the index rejected the second one.
C1_Witness ==
    \E r1, r2 \in Reqs :
        /\ r1 # r2
        /\ Inserted(r1)
        /\ req[r2].pc = "recover"
        /\ req[r1].ad.id = req[r2].ad.id
        /\ req[r1].key = req[r2].key

\* C2: every startChat that got past validation and completed, completed
\* with 200 or 201 carrying the id of the one persisted chat of its ad and
\* pair, and at most one request per ad and pair got 201.
C2_ConcurrentStartsAllSucceed ==
    /\ \A r \in Reqs :
          (Done(r) /\ Passed(r)) =>
              /\ req[r].status \in {200, 201}
              /\ ChatsOf(r) = {ChatById(req[r].chat)}
    /\ \A r1, r2 \in Reqs :
          (r1 # r2 /\ Done(r1) /\ Done(r2) /\ req[r1].status = 201 /\ req[r2].status = 201)
              => (req[r1].ad.id # req[r2].ad.id \/ Pair(r1) # Pair(r2))

\* C3: a startChat that arrives when the chat of its ad and pair is already
\* persisted, made by the caller that created it, inserts nothing and ends
\* with 200 and that chat's id; per ad and pair at most one request ever
\* has its insert accepted, so only the first of N calls reports 201. The
\* creating request may have been abandoned before its response.
C3_LaterStartReturnsExisting ==
    /\ \A r \in Reqs :
          (req[r].existing # 0 /\ req[r].caller = ChatById(req[r].existing).participants[1]) =>
              /\ req[r].inserts = 0
              /\ req[r].pc \in {"lookup", "done"}
              /\ Done(r) => (req[r].status = 200 /\ req[r].chat = req[r].existing)
    /\ \A r1, r2 \in Reqs :
          (r1 # r2 /\ Inserted(r1) /\ Inserted(r2))
              => (req[r1].ad.id # req[r2].ad.id \/ Pair(r1) # Pair(r2))

\* The creating request was abandoned after its insert and the retry by the
\* same caller got 200 with the chat it had inserted.
C3_Witness ==
    \E r1, r2 \in Reqs :
        /\ req[r1].pc = "abandoned"
        /\ Done(r2)
        /\ req[r2].caller = req[r1].caller
        /\ req[r2].existing = req[r1].chat
        /\ req[r2].status = 200
        /\ req[r2].chat = req[r1].chat

\* C4 as claimed: a startChat by the other participant of a persisted chat
\* (the receiver of the creating request), naming the creator, on the same
\* ad, ends with 200 and that chat.
C4_OwnerObtainsChat ==
    \A r \in Reqs :
        (Done(r) /\ req[r].existing # 0
         /\ req[r].caller = ChatById(req[r].existing).participants[2]) =>
            (req[r].status = 200 /\ req[r].chat = req[r].existing /\ req[r].inserts = 0)

\* C4 as amended: the receiver of the creating request is the ad's owner;
\* its startChat naming the creator on the same ad ends with 400 before any
\* chat is looked up or inserted and returns no chat.
C4_OwnerIsRejected ==
    \A r \in Reqs :
        (req[r].pc # "idle" /\ req[r].existing # 0
         /\ req[r].caller = ChatById(req[r].existing).participants[2]) =>
            /\ Done(r)
            /\ req[r].status = 400
            /\ req[r].chat = 0
            /\ req[r].reads = 0
            /\ req[r].inserts = 0

C4_Witness ==
    \E r \in Reqs :
        /\ Done(r)
        /\ req[r].existing # 0
        /\ req[r].caller = ChatById(req[r].existing).participants[2]
        /\ ToObjectId(req[r].receiver) = ChatById(req[r].existing).participants[1]
        /\ req[r].status = 400

\* C5: the canonical key does not depend on the order of the two users:
\* the key stored by the schema hooks equals the key recomputed from the
\* reversed participants array and the key startChat computes with caller
\* and receiver exchanged; the same holds of the Conversation key.
C5_KeyOrderIndependent ==
    /\ \A c \in chats :
          LET p == c.participants
              q == <<p[2], p[1]>>
          IN  /\ c.participantsKey = HookParticipantsKey(q)
              /\ c.participantsKey = ParticipantsKey(q[1], q[2])
              /\ ConversationKey(p) = ConversationKey(q)
    /\ \A r \in Reqs :
          req[r].key # NoKey =>
              req[r].key = ParticipantsKey(ToObjectId(req[r].receiver), req[r].caller)

\* A chat whose participants were stored in descending order, so that the
\* sort has to exchange them.
C5_Witness ==
    \E c \in chats : c.participants[1] > c.participants[2] /\ c.participantsKey # NoKey

\* C6: chats of one pair on different ads do not collide: a success response
\* carries a chat of the request's own ad and pair, and an insert is rejected
\* only when a chat of the same ad and pair is persisted.
C6_ScopesDoNotCollide ==
    \A r \in Reqs :
        /\ (Done(r) /\ req[r].status \in {200, 201}) =>
              /\ ChatById(req[r].chat).ad = ToObjectId(req[r].ad)
              /\ Range(ChatById(req[r].chat).participants) = Pair(r)
        /\ (req[r].inserts = 1 /\ ~Inserted(r)) => ChatsOf(r) # {}

\* One caller started a chat with the same seller on two ads and got 201
\* and a chat of its own for each.
C6_Witness ==
    \E r1, r2 \in Reqs :
        /\ Done(r1) /\ Done(r2)
        /\ req[r1].status = 201 /\ req[r2].status = 201
        /\ req[r1].caller = req[r2].caller
        /\ Pair(r1) = Pair(r2)
        /\ req[r1].ad.id # req[r2].ad.id
        /\ req[r1].chat # req[r2].chat

\* C7: a valid startChat that arrives when no chat of its ad and pair is
\* persisted ends with 201, whatever other chats exist, unless a concurrent
\* request persisted that chat in the meantime.
C7_FirstStartCreates ==
    \A r \in Reqs :
        (Done(r) /\ Passed(r) /\ req[r].existing = 0 /\ req[r].status # 201)
            => ChatsOf(r) # {}

\* C8: a startChat whose receiverId denotes the caller always ends with 400
\* and neither looks up nor inserts a chat, whatever the ad id.
C8_SelfStartRejected ==
    \A r \in Reqs :
        (req[r].pc # "idle" /\ IsValid(Trim(req[r].receiver))
         /\ ToObjectId(req[r].receiver) = req[r].caller) =>
            /\ Done(r)
            /\ req[r].status = 400
            /\ req[r].chat = 0
            /\ req[r].reads = 0
            /\ req[r].inserts = 0

\* The owner of an existing ad named itself, in upper-case hex.
C8_Witness ==
    \E r \in Reqs :
        /\ Done(r)
        /\ req[r].receiver = [id |-> req[r].caller, form |-> "upper"]
        /\ req[r].ad.form = "plain"
        /\ req[r].ad.id \in DOMAIN AdOwner
        /\ AdOwner[req[r].ad.id] = req[r].caller
        /\ req[r].status = 400

C10_RecoveryMissIsConflict ==
    \A r \in Reqs :
        (Done(r) /\ req[r].reads = 2 /\ req[r].status # 200) =>
            /\ req[r].status \in {409, 500}
            /\ req[r].inserts = 1
            /\ req[r].responses = 1

\* ------------------------------------------------- claims, message stream

\* The request addresses a well-formed chat id.
WellFormed(r) == mreq[r].pc # "idle" /\ mreq[r].chatId.form \in {"plain", "upper"}

\* The chat the request addresses, as a set of at most one chat.
Target(r) == {c \in chats : c.id = mreq[r].chatId.id}

\* The caller of the request is in no participants array of its target.
Stranger(r) == \A c \in Target(r) : mreq[r].caller \notin Range(c.participants)

\* The request's text is empty after trimming or longer than the maximum.
TextRejected(r) == mreq[r].text.body = 0 \/ mreq[r].text.body > MaxTextLength

\* The request has touched neither a message nor a chat.
Untouched(r) ==
    /\ mreq[r].ops = 0
    /\ mreq[r].returned = <<>>
    /\ mreq[r].created = 0
    /\ mreq[r].marked = {}

\* C11 as claimed: a getMessages or sendMessage on a well-formed chat id by
\* a user who is not a participant of that chat ends with 403, or with 404
\* when the chat does not exist, returns no message and reads, creates and
\* marks no message.
C11_StrangerGets403Or404 ==
    \A r \in MReqs :
        (WellFormed(r) /\ Stranger(r)) =>
            /\ mreq[r].pc \in {"getFind", "sendFind", "done"}
            /\ Untouched(r)
            /\ mreq[r].pc = "done" =>
                  mreq[r].status = (IF Target(r) = {} THEN 404 ELSE 403)

\* C11 as amended: such a request ends with 403, with 404 when the chat
\* does not exist, or, for a sendMessage whose text is empty after trimming
\* or too long, with 400 before the chat is looked up; in every case it
\* returns no message and reads, creates and marks no message.
C11_StrangerIsRefused ==
    \A r \in MReqs :
        (WellFormed(r) /\ Stranger(r)) =>
            /\ mreq[r].pc \in {"getFind", "sendFind", "done"}
            /\ Untouched(r)
            /\ mreq[r].pc = "done" =>
                  mreq[r].status =
                      (IF mreq[r].op = "send" /\ TextRejected(r) THEN 400
                       ELSE IF Target(r) = {} THEN 404 ELSE 403)

\* A user outside a chat that holds a message was refused both the list and
\* the send on it with 403.
C11_Witness ==
    \E r1, r2 \in MReqs, i \in MessageIds :
        /\ mreq[r1].pc = "done" /\ mreq[r1].op = "get"
        /\ mreq[r2].pc = "done" /\ mreq[r2].op = "send"
        /\ Target(r1) # {} /\ Target(r1) = Target(r2)
        /\ Stranger(r1) /\ Stranger(r2)
        /\ mreq[r1].status = 403 /\ mreq[r2].status = 403
        /\ messages[i].chat = mreq[r1].chatId.id

\* C12: the response to a probe of a well-formed chat id does not tell a
\* chat that does not exist from a chat the caller is not part of: two
\* completed requests of the same operation, caller and text, one on an id
\* that names no chat and one on a chat without the caller, carry the same
\* status.
C12_ExistenceNotLeaked ==
    \A r1, r2 \in MReqs :
        (/\ mreq[r1].pc = "done" /\ mreq[r2].pc = "done"
         /\ WellFormed(r1) /\ WellFormed(r2)
         /\ mreq[r1].op = mreq[r2].op
         /\ mreq[r1].caller = mreq[r2].caller
         /\ mreq[r1].text = mreq[r2].text
         /\ Target(r1) = {}
         /\ Target(r2) # {} /\ Stranger(r2))
            => mreq[r1].status = mreq[r2].status

\* A completed getMessages of a participant.
Listed(r) == mreq[r].op = "get" /\ mreq[r].pc = "done" /\ mreq[r].status = 200

\* Message i was sent by a sendMessage that had completed when the
\* sendMessage of message j arrived.
SentBefore(i, j) ==
    \E r \in MReqs : mreq[r].created = j /\ i \in mreq[r].after

\* C13: a getMessages by a participant returns exactly the messages of the
\* chat that were persisted when it listed them, each once, ascending in
\* createdAt, and two messages sent one after the other in the order of
\* sending, also when their createdAt values are equal.
C13_ListedInSendOrder ==
    \A r \in MReqs :
        Listed(r) =>
            LET ret == mreq[r].returned
                ids == {i \in MessagesOf(mreq[r].chatId.id) : i <= mreq[r].listSeq}
            IN  /\ Range(ret) = ids
                /\ Len(ret) = Cardinality(ids)
                /\ \A i, j \in 1..Len(ret) :
                      i < j => /\ messages[ret[i]].createdAt <= messages[ret[j]].createdAt
                               /\ ~SentBefore(ret[j], ret[i])

\* Message i was persisted when a completed getMessages of its receiver on
\* its chat ran the mark-read.
Covered(i) ==
    \E r \in MReqs :
        /\ Listed(r)
        /\ mreq[r].caller = messages[i].receiver
        /\ mreq[r].chatId.id = messages[i].chat
        /\ i <= mreq[r].markSeq

\* C14: unreadCount of a user is the number of messages addressed to the
\* user that no getMessages of the user on the message's chat has covered:
\* messages sent before the user listed the chat are counted, those
\* persisted when a getMessages of the user marked the chat are not, and
\* those sent afterwards are counted again.
C14_UnreadCountFollowsReads ==
    \A u \in Users :
        UnreadCount(u) =
            Cardinality({i \in MessageIds : messages[i].receiver = u /\ ~Covered(i)})

\* A user listed a chat that held a message for it, and a message sent to
\* it in that chat afterwards is counted as unread.
C14_Witness ==
    \E r \in MReqs, i, j \in MessageIds :
        /\ Listed(r)
        /\ i \in mreq[r].marked
        /\ messages[i].isRead
        /\ j > mreq[r].markSeq
        /\ messages[j].chat = messages[i].chat
        /\ messages[j].receiver = mreq[r].caller
        /\ UnreadCount(mreq[r].caller) = 1

\* C15: a step changes the isRead flag only of messages of the chat that a
\* getMessages is marking and that are addressed to its caller; messages the
\* caller sent, messages of other chats and messages addressed to other
\* users keep their flag, under every interleaving.
C15_MarkReadIsScoped ==
    [][\A i \in MessageIds :
          messages'[i].isRead # messages[i].isRead =>
              \E r \in MReqs :
                  /\ mreq[r].pc = "getMark"
                  /\ mreq'[r].pc = "done"
                  /\ messages[i].chat = mreq[r].chatId.id
                  /\ messages[i].receiver = mreq[r].caller
                  /\ messages[i].sender # mreq[r].caller]_vars

\* A getMessages marked a message although an unread message sent by its
\* caller was persisted in the same chat, which stayed unread.
C15_Witness ==
    \E r \in MReqs, i \in MessageIds :
        /\ Listed(r)
        /\ mreq[r].marked # {}
        /\ i <= mreq[r].markSeq
        /\ messages[i].chat = mreq[r].chatId.id
        /\ messages[i].sender = mreq[r].caller
        /\ ~messages[i].isRead

\* A getMessages of a participant that has passed the access check.
Admitted(r) ==
    /\ mreq[r].op = "get"
    /\ mreq[r].pc = "done"
    /\ mreq[r].caller \in Range(mreq[r].parts)

\* C16: of two getMessages of one participant on one chat with no message
\* of that chat persisted between their mark-read steps, the later one
\* transitions no message and ends with 200, so flags and unread counts stay
\* as the earlier one left them.
C16_SecondMarkReadIsEmpty ==
    \A r1, r2 \in MReqs :
        (/\ r1 # r2
         /\ Admitted(r1) /\ Admitted(r2)
         /\ mreq[r1].caller = mreq[r2].caller
         /\ mreq[r1].chatId = mreq[r2].chatId
         /\ mreq[r1].markSeq <= mreq[r2].markSeq
         /\ \A i \in MessagesOf(mreq[r1].chatId.id) :
               ~(mreq[r1].markSeq < i /\ i <= mreq[r2].markSeq))
            => /\ mreq[r1].status = 200 /\ mreq[r2].status = 200
               /\ \/ mreq[r2].marked = {}
                  \/ mreq[r1].markSeq = mreq[r2].markSeq /\ mreq[r1].marked = {}

\* A participant listed a chat twice; the first call marked a message, the
\* second none.
C16_Witness ==
    \E r1, r2 \in MReqs :
        /\ r1 # r2
        /\ Admitted(r1) /\ Admitted(r2)
        /\ mreq[r1].caller = mreq[r2].caller
        /\ mreq[r1].chatId = mreq[r2].chatId
        /\ mreq[r1].marked # {}
        /\ mreq[r2].marked = {}
        /\ mreq[r2].returned # <<>>
        /\ mreq[r2].status = 200

\* C17: a step only appends to the messages, one message at a time, by the
\* create step of a sendMessage and unread; a persisted message is never
\* removed, its chat, sender, receiver, text and createdAt never change and
\* its isRead flag never goes from true back to false.
C17_MessageLifecycle ==
    [][/\ Len(messages') >= Len(messages)
       /\ \A i \in MessageIds :
             /\ [messages'[i] EXCEPT !.isRead = FALSE] = [messages[i] EXCEPT !.isRead = FALSE]
             /\ messages[i].isRead => messages'[i].isRead
       /\ Len(messages') > Len(messages) =>
             /\ Len(messages') = Len(messages) + 1
             /\ ~messages'[Len(messages')].isRead
             /\ \E r \in MReqs : mreq[r].pc = "sendCreate" /\ mreq'[r].pc = "sendUpdate"]_vars

\* A message was created unread and has been read since, after the
\* migration has run.
C17_Witness ==
    \E i \in MessageIds :
        /\ messages[i].isRead
        /\ migration = "done"

\* C18: a step removes no chat and changes no chat's participants, ad or
\* participantsKey: every persisted chat is still persisted afterwards,
\* differing at most in lastMessage and updatedAt.
C18_ChatNeverDeleted ==
    [][\A c \in chats :
          \E d \in chats' :
              [d EXCEPT !.lastMessage = 0, !.updatedAt = 0]
                  = [c EXCEPT !.lastMessage = 0, !.updatedAt = 0]]_vars

\* C19: every persisted message references a chat that is persisted, and
\* only one, also after the migration and the cleanup have run.
C19_MessageChatExists ==
    \A i \in MessageIds :
        Cardinality({c \in chats : c.id = messages[i].chat}) = 1

\* A sendMessage on the chat is between its first and its last step.
SendInFlight(chat) ==
    \E r \in MReqs :
        /\ mreq[r].op = "send"
        /\ mreq[r].pc # "done"
        /\ mreq[r].chatId.id = chat

\* C20: whenever no sendMessage is in flight on a chat that has a message,
\* the chat's lastMessage is a message of the chat than which none of the
\* chat's messages has a greater createdAt.
C20_LastMessageIsNewest ==
    \A c \in chats :
        (MessagesOf(c.id) # {} /\ ~SendInFlight(c.id)) =>
            /\ c.lastMessage \in MessagesOf(c.id)
            /\ \A i \in MessagesOf(c.id) :
                  messages[i].createdAt <= messages[c.lastMessage].createdAt

\* C21: the sender and the receiver of every persisted message are the two
\* participants of its chat, the receiver being the one that is not the
\* sender; and the request that created a message found its caller and the
\* receiver among the participants of the chat it loaded itself.
C21_SenderAndReceiverAreParticipants ==
    /\ \A i \in MessageIds, c \in chats :
          c.id = messages[i].chat =>
              /\ messages[i].sender \in Range(c.participants)
              /\ messages[i].receiver \in Range(c.participants)
              /\ messages[i].receiver # messages[i].sender
              /\ Range(c.participants) = {messages[i].sender, messages[i].receiver}
    /\ \A r \in MReqs :
          mreq[r].created # 0 =>
              /\ messages[mreq[r].created].sender = mreq[r].caller
              /\ messages[mreq[r].created].receiver = mreq[r].receiver
              /\ mreq[r].caller \in Range(mreq[r].parts)
              /\ mreq[r].receiver \in Range(mreq[r].parts) \ {mreq[r].caller}

\* Both participants of one chat have sent a message in it.
C21_Witness ==
    \E i, j \in MessageIds, c \in chats :
        /\ messages[i].chat = c.id /\ messages[j].chat = c.id
        /\ messages[i].sender = c.participants[1]
        /\ messages[j].sender = c.participants[2]

\* C22: whatever startChat requests have run, every persisted chat has
\* exactly two participants, both of them users, and they are two different
\* users.
C22_ChatsAreDyadic ==
    \A c \in chats :
        /\ Len(c.participants) = 2
        /\ Range(c.participants) \subseteq Users
        /\ c.participants[1] # c.participants[2]

\* A chat has been created on an ad, and the owner of that ad has asked for
\* a chat with themselves on it and was refused.
C22_Witness ==
    \E r1, r2 \in Reqs, c \in chats :
        /\ Done(r1) /\ req[r1].status = 201 /\ req[r1].chat = c.id
        /\ Done(r2) /\ req[r2].status = 400
        /\ IsValid(Trim(req[r2].receiver)) /\ IsValid(Trim(req[r2].ad))
        /\ ToObjectId(req[r2].ad) = c.ad
        /\ ToObjectId(req[r2].receiver) = req[r2].caller
        /\ req[r2].caller = AdOwner[c.ad]

\* A completed sendMessage by a participant of the chat it addresses.
SentByParticipant(r) ==
    /\ mreq[r].op = "send" /\ mreq[r].pc = "done"
    /\ WellFormed(r)
    /\ Target(r) # {} /\ ~Stranger(r)

\* The request was answered 201 and persisted exactly one message, which
\* holds the trimmed text.
AcceptedOnce(r) ==
    /\ mreq[r].status = 201
    /\ mreq[r].ops = 1
    /\ mreq[r].created \in MessageIds
    /\ messages[mreq[r].created].text = TrimText(mreq[r].text)

\* The request was answered 400 and persisted nothing.
RejectedClean(r) ==
    /\ mreq[r].status = 400
    /\ mreq[r].ops = 0
    /\ mreq[r].created = 0

\* C23 as claimed: of the sendMessage requests by a participant, one with a
\* text of exactly 2000 characters is accepted with 201 and one persisted
\* message, one with a text of 2001 or more characters is rejected with 400
\* and persists nothing, and one with an empty or all-whitespace text is
\* rejected with 400 and persists nothing.
C23_TextBoundsAsReceived ==
    \A r \in MReqs :
        SentByParticipant(r) =>
            /\ (TextLength(mreq[r].text) = MaxTextLength
                   /\ TextLength(TrimText(mreq[r].text)) > 0) => AcceptedOnce(r)
            /\ TextLength(mreq[r].text) > MaxTextLength => RejectedClean(r)
            /\ TextLength(TrimText(mreq[r].text)) = 0 => RejectedClean(r)

\* C23 as amended: the length is measured after trimming. A text whose
\* trimmed length is between 1 and 2000 is accepted with 201 and one
\* persisted message holding the trimmed text, also when the text as
\* received is longer than 2000; a text whose trimmed length is 2001 or
\* more, or 0, is rejected with 400 and persists nothing.
C23_TextBoundsAfterTrim ==
    \A r \in MReqs :
        SentByParticipant(r) =>
            LET n == TextLength(TrimText(mreq[r].text))
            IN  /\ (n >= 1 /\ n <= MaxTextLength) => AcceptedOnce(r)
                /\ n > MaxTextLength => RejectedClean(r)
                /\ n = 0 => RejectedClean(r)

\* A participant's text of 2000 characters between two whitespace
\* characters was accepted and one of 2001 characters was rejected.
C23_Witness ==
    \E r1, r2 \in MReqs :
        /\ SentByParticipant(r1) /\ SentByParticipant(r2)
        /\ mreq[r1].text = [body |-> MaxTextLength, pad |-> 2]
        /\ mreq[r1].status = 201
        /\ mreq[r2].text = [body |-> MaxTextLength + 1, pad |-> 0]
        /\ mreq[r2].status = 400

\* C24: the getChats step that answers user u returns, for each chat it
\* found, the number of stored messages of that chat that are addressed to
\* u and unread, 0 when there is none, having run one aggregate on the
\* messages; and the step that finds the chats finds exactly the stored
\* chats whose participants contain u, each once.
C24_ChatsWithUnreadCounts ==
    [][\A r \in MReqs :
          /\ (mreq[r].pc = "idle" /\ mreq'[r].op = "chats") =>
                /\ Range(mreq'[r].found) =
                      {c.id : c \in {d \in chats : mreq'[r].caller \in Range(d.participants)}}
                /\ \A i, j \in 1..Len(mreq'[r].found) :
                      i # j => mreq'[r].found[i] # mreq'[r].found[j]
          /\ (mreq[r].pc = "chatsAggregate" /\ mreq'[r].pc = "done") =>
                /\ mreq'[r].status = 200
                /\ mreq'[r].found = mreq[r].found
                /\ Len(mreq'[r].unread) = Len(mreq[r].found)
                /\ \A k \in 1..Len(mreq[r].found) :
                      mreq'[r].unread[k] =
                          Cardinality({i \in MessageIds :
                                          /\ messages[i].chat = mreq[r].found[k]
                                          /\ messages[i].receiver = mreq[r].caller
                                          /\ ~messages[i].isRead})
                /\ mreq'[r].ops = 1]_vars

\* A getChats of user 2 returned both chats, with no unread message in one
\* of them after user 2 had read it and with one in the other; and a
\* getChats of another user returned one chat only.
C24_Witness ==
    \E r1, r2 \in MReqs :
        /\ mreq[r1].op = "chats" /\ mreq[r1].pc = "done" /\ mreq[r1].caller = 2
        /\ Len(mreq[r1].found) = 2
        /\ \E k \in 1..2 : mreq[r1].unread[k] = 0 /\ mreq[r1].unread[3 - k] = 1
        /\ mreq[r2].op = "chats" /\ mreq[r2].pc = "done" /\ mreq[r2].caller # 2
        /\ Len(mreq[r2].found) = 1
        /\ mreq[r2].unread = <<1>>

\* C25: every message a getMessages call marks as read is in the list the
\* same call returns, and every message that is read is in the list some
\* getMessages call returns to its receiver, also when a sendMessage
\* persists its message between the call's read of the messages and its
\* mark-read update.
C25_MarkedReadWasDelivered ==
    /\ \A r \in MReqs :
          mreq[r].op = "get" => mreq[r].marked \subseteq Range(mreq[r].returned)
    /\ \A i \in MessageIds :
          messages[i].isRead =>
              \E r \in MReqs :
                  /\ mreq[r].op = "get"
                  /\ mreq[r].caller = messages[i].receiver
                  /\ i \in Range(mreq[r].returned)

\* C26: a sendMessage request that ends with an error response has
\* persisted no message, and the step that ends it leaves the messages and
\* every chat's lastMessage and updatedAt as they were; this includes a
\* request whose chat update fails after its message insert.
C26_SendIsAllOrNothing ==
    [][\A r \in MReqs :
          (/\ mreq[r].pc # "done" /\ mreq'[r].pc = "done"
           /\ mreq'[r].op = "send"
           /\ mreq'[r].status >= 400) =>
              /\ mreq'[r].created = 0
              /\ messages' = messages
              /\ chats' = chats]_vars

\* C27: a request whose insert was rejected by the unique index is answered
\* from the recovery read of the (ad, participantsKey) its main path looked
\* up: it ends with 200 and the chat stored under that ad and key, whether
\* its receiverId and adId were sent trimmed or with surrounding whitespace.
C27_RecoveryLooksUpMainPathKey ==
    \A r \in Reqs :
        (Done(r) /\ req[r].inserts = 1 /\ ~Inserted(r)) =>
            /\ req[r].status = 200
            /\ req[r].chat \in
                  {c.id : c \in FindChat(ToObjectId(req[r].ad), req[r].participants, req[r].key)}

\* The stored chats of the unordered pair of users of chat c.
SamePair(c) == {d \in chats : Range(d.participants) = Range(c.participants)}

\* C28: when the migration has removed the duplicates, at most one chat is
\* left for every unordered pair of users, whatever order the participants
\* arrays were stored in, and the chat left for a pair is one that had the
\* newest updatedAt among the chats of that pair.
C28_OneChatPerPairAfterMigration ==
    [][(migration = "unset" /\ migration' = "done") =>
          /\ \A c, d \in chats' :
                Range(c.participants) = Range(d.participants) => c = d
          /\ \A c \in chats :
                \E d \in chats' :
                    /\ Range(d.participants) = Range(c.participants)
                    /\ \E k \in SamePair(c) :
                          /\ k.id = d.id
                          /\ \A o \in SamePair(c) : o.updatedAt <= k.updatedAt]_vars

\* C29: every ad is created as draft, and every step that changes the
\* status of an ad moves it from draft to active or from active to sold;
\* in particular the status of a sold ad never changes again, under every
\* interleaving of updateAdStatus requests on the ad.
C29_StatusIsOneWay ==
    [][/\ \A a \in 1..Len(ads') :
             a > Len(ads) => ads'[a].status = "draft"
       /\ \A a \in 1..Len(ads) :
             /\ a <= Len(ads')
             /\ ads'[a].status # ads[a].status =>
                   \/ ads[a].status = "draft" /\ ads'[a].status = "active"
                   \/ ads[a].status = "active" /\ ads'[a].status = "sold"]_vars

\* C30: of the resetPassword requests made with one issued token at most
\* one ends with 200; every other request with that token ends with 400,
\* also one that read the user before the first one saved.
C30_ResetTokenIsSingleUse ==
    \A r1, r2 \in DOMAIN preq :
        (/\ r1 # r2
         /\ preq[r1].pc = "done" /\ preq[r1].status = 200
         /\ preq[r2].pc = "done"
         /\ preq[r2].token = preq[r1].token)
            => preq[r2].status = 400

====
